---- MODULE Spec2Model ----
(***************************************************************************)
(* Model of docs/source/examples/notebooks/example3-3_PredefinedSequences  *)
(* The notebook is a sequential script of eight code cells.  Each cell is  *)
(* a table of statements; one action per statement kind interprets the     *)
(* statement under the program counter.  The Python name environment is    *)
(* part of the state, so a statement that reads an unbound name raises     *)
(* NameError and aborts its cell.                                          *)
(* Units: times in ns, frequencies in kHz, Rabi amplitudes in 1/100.        *)
(***************************************************************************)
EXTENDS Integers, Sequences, FiniteSets, TLC

\* ------------------------------------------------------------ values ----
NumV(x) == [t |-> "num", v |-> x]

StrV(x) == [t |-> "str", v |-> x]

ObjV(x) == [t |-> "obj", v |-> x]

ArrV(x) == [t |-> "arr", v |-> x]

WaveV(n) == [t |-> "wave", v |-> n]

\* np.linspace(start, stop, num): num evenly spaced points, both ends included
Linspace(start, stop, num) ==
  [j \in 1..num |-> start + ((j - 1) * (stop - start)) \div (num - 1)]

\* ------------------------------------------------------- expressions ----
E(k, a, b, v) == [k |-> k, a |-> a, b |-> b, v |-> v]

Num(x) == E("num", "", "", x)

Str(x) == E("str", "", "", x)

Name(n) == E("name", n, "", 0)

LenOf(n) == E("len", n, "", 0)

MulLen(a, b) == E("mullen", a, b, 0)

AttrOf(base, path) == E("attr", base, path, 0)

NpLinspace(start, stop, num) == E("linspace", "", "", <<start, stop, num>>)

NpEmpty == E("empty", "", "", 0)

NpOnes(n) == E("ones", "", "", n)

NpAppend(a, b) == E("append", a, b, 0)

\* attribute lookup on the toolkit objects
Attr(obj, path) ==
  CASE path = "" -> obj
    [] obj = "MDC" /\ path = "hdawgs[hdawg 1]" -> "HDAWG"
    [] obj = "MDC" /\ path = "uhfqas[uhfqa 1]" -> "UHFQA"
    [] obj = "HDAWG" /\ path = "awgs[0]" -> "HD0"
    [] obj = "UHFQA" /\ path = "awg" -> "QA"
    [] obj = "UHFQA" /\ path = "channels[0]" -> "CH0"
    [] obj = "UHFQA" /\ path = "nodetree.osc.freq" -> "OSC"
    [] obj = "UHFQA" /\ path = "nodetree.qa.result.source" -> "QASRC"
    [] OTHER -> "?"

\* the names an expression reads
NamesOf(e) ==
  CASE e.k \in {"name", "len", "attr"} -> {e.a}
    [] e.k = "mullen" -> {e.a, e.b}
    [] e.k = "append" -> {"np", e.a, e.b}
    [] e.k \in {"linspace", "empty", "ones"} -> {"np"}
    [] OTHER -> {}

\* the value of an expression in environment en (all its names are bound)
Eval(e, en) ==
  CASE e.k = "num" -> NumV(e.v)
    [] e.k = "str" -> StrV(e.v)
    [] e.k = "name" -> en[e.a]
    [] e.k = "len" -> NumV(Len(en[e.a].v))
    [] e.k = "mullen" -> NumV(en[e.a].v * Len(en[e.b].v))
    [] e.k = "attr" -> ObjV(Attr(en[e.a].v, e.b))
    [] e.k = "linspace" -> ArrV(Linspace(e.v[1], e.v[2], e.v[3]))
    [] e.k = "empty" -> ArrV(<<>>)
    [] e.k = "ones" -> WaveV(e.v)
    [] e.k = "list" -> ArrV(e.v)
    [] e.k = "append" -> ArrV(Append(en[e.a].v, en[e.b].v))

\* -------------------------------------------------------- statements ----
T(base, path) == [base |-> base, path |-> path]

NoT == T("", "")

S(line, op, tgt, name, e, args, n) ==
  [line |-> line, op |-> op, tgt |-> tgt, name |-> name, e |-> e,
   args |-> args, n |-> n]

Import(line, name) == S(line, "import", NoT, name, Num(0), <<>>, 0)

Assign(line, name, e) == S(line, "assign", NoT, name, e, <<>>, 0)

Call(line, tgt, op, args) == S(line, op, tgt, "", Num(0), args, 0)

Node(line, tgt, key, e) == S(line, "node", tgt, key, e, <<>>, 0)

ForIn(line, var, iter, n) == S(line, "for", NoT, var, Name(iter), <<>>, n)

ResultOf(line, name, tgt, fn) == S(line, "result", tgt, name, Str(fn), <<>>, 0)

\* number of sweep points of the two frequency sweeps, and of Rabi and T1
NumFrequencies == 101

NumAmplitudes == 101

NumDelays == 40

\* the connection cell with the data server set up after the devices
Cell1_SetupLast ==
  << Import(38, "tk"),
     Import(39, "np"),
     S(42, "new_mdc", NoT, "mdc", Num(0), <<>>, 0),
     S(46, "connect_device", T("mdc", ""), "HDAWG", Num(0), <<>>, 0),
     S(47, "connect_device", T("mdc", ""), "UHFQA", Num(0), <<>>, 0),
     Call(43, T("mdc", ""), "setup", <<>>),
     Assign(50, "hdawg", AttrOf("mdc", "hdawgs[hdawg 1]")),
     Assign(51, "uhfqa", AttrOf("mdc", "uhfqas[uhfqa 1]")) >>

\* connection cell
Cell1 ==
  << Import(38, "tk"),
     Import(39, "np"),
     S(42, "new_mdc", NoT, "mdc", Num(0), <<>>, 0),
     Call(43, T("mdc", ""), "setup", <<>>),
     S(46, "connect_device", T("mdc", ""), "HDAWG", Num(0), <<>>, 0),
     S(47, "connect_device", T("mdc", ""), "UHFQA", Num(0), <<>>, 0),
     Assign(50, "hdawg", AttrOf("mdc", "hdawgs[hdawg 1]")),
     Assign(51, "uhfqa", AttrOf("mdc", "uhfqas[uhfqa 1]")) >>

\* resonator spectroscopy configuration cell
Cell2 ==
  << Assign(81, "trigger", AttrOf("hdawg", "awgs[0]")),
     Assign(82, "readout", AttrOf("uhfqa", "awg")),
     Assign(85, "period", Num(10000)),
     Assign(86, "repetitions", Num(1000)),
     Call(89, T("trigger", ""), "set_sequence_params",
          << <<"sequence_type", Str("Trigger")>>,
             <<"period", Name("period")>>,
             <<"repetitions", Name("repetitions")>> >>),
     Call(94, T("trigger", ""), "compile", <<>>),
     Call(97, T("readout", ""), "set_sequence_params",
          << <<"sequence_type", Str("Pulsed Spectroscopy")>>,
             <<"period", Name("period")>>,
             <<"repetitions", Name("repetitions")>>,
             <<"trigger_mode", Str("External Trigger")>> >>),
     Call(103, T("readout", ""), "compile", <<>>) >>

\* body of the resonator spectroscopy sweep loop
ResonatorSweepBody ==
  << Node(131, T("modulation_freq", ""), "osc_freq", Name("f")),
     Call(132, T("uhfqa", ""), "arm", <<>>),
     Call(133, T("readout", ""), "run", <<>>),
     Call(134, T("trigger", ""), "run", <<>>),
     Call(135, T("trigger", ""), "wait_done", <<>>),
     ResultOf(136, "avg_result", T("uhfqa", "channels[0]"), "mean"),
     Assign(137, "results", NpAppend("results", "avg_result")) >>

\* resonator spectroscopy sweep cell
Cell3 ==
  << Node(122, T("uhfqa", ""), "result_source", Str("Integration")),
     Call(123, T("ufhqa", ""), "arm",
          << <<"length", Name("repetitions")>>, <<"averages", Num(1)>> >>),
     Assign(124, "modulation_freq", AttrOf("uhfqa", "nodetree.osc.freq")),
     Assign(127, "frequencies", NpLinspace(50000, 100000, NumFrequencies)),
     Assign(128, "results", NpEmpty),
     ForIn(130, "f", "frequencies", Len(ResonatorSweepBody)) >>
  \o ResonatorSweepBody

\* the Simple drive configuration without the reset_queue call
SimpleDriveConfig_NoReset ==
  << Call(179, T("drive", ""), "set_sequence_params",
          << <<"sequence_type", Str("Simple")>>,
             <<"period", Name("period")>>,
             <<"repetitions", Name("repetitions")>>,
             <<"trigger_mode", Str("Send Trigger")>> >>),
     Assign(186, "wave", NpOnes(12000)),
     Call(187, T("drive", ""), "queue_waveform",
          << <<"wave1", Name("wave")>>, <<"wave2", Name("wave")>> >>),
     Call(188, T("drive", ""), "compile_and_upload_waveforms", <<>>) >>

\* qubit spectroscopy configuration cell: the Simple drive sequence
SimpleDriveConfig ==
  << Call(179, T("drive", ""), "set_sequence_params",
          << <<"sequence_type", Str("Simple")>>,
             <<"period", Name("period")>>,
             <<"repetitions", Name("repetitions")>>,
             <<"trigger_mode", Str("Send Trigger")>> >>),
     Call(185, T("drive", ""), "reset_queue", <<>>),
     Assign(186, "wave", NpOnes(12000)),
     Call(187, T("drive", ""), "queue_waveform",
          << <<"wave1", Name("wave")>>, <<"wave2", Name("wave")>> >>),
     Call(188, T("drive", ""), "compile_and_upload_waveforms", <<>>) >>

\* qubit spectroscopy configuration cell
Cell4 ==
  << Assign(171, "drive", AttrOf("hdawg", "awgs[0]")),
     Assign(172, "readout", AttrOf("uhfqa", "awg")),
     Assign(173, "channel", AttrOf("uhfqa", "channels[0]")),
     Assign(175, "period", Num(10000)),
     Assign(176, "repetitions", Num(100)) >>
  \o SimpleDriveConfig \o
  << Node(191, T("channel", ""), "channel_enable", Num(1)),
     Node(192, T("channel", ""), "readout_frequency", Num(123000)),
     Call(193, T("readout", ""), "set_sequence_params",
          << <<"sequence_type", Str("Readout")>>,
             <<"period", Name("period")>>,
             <<"repetitions", Name("repetitions")>>,
             <<"pulse_lenth", Num(2000)>>,
             <<"trigger_mode", Str("External Trigger")>> >>),
     Call(200, T("readout", ""), "compile", <<>>) >>

\* the sweep body with the result read before the wait
QubitSweepBody_ResultBeforeWait ==
  << Node(227, T("drive", ""), "modulation_freq", Name("f")),
     Call(228, T("uhfqa", ""), "arm", <<>>),
     Call(229, T("readout", ""), "run", <<>>),
     Call(230, T("drive", ""), "run", <<>>),
     ResultOf(232, "avg_result", T("channel", ""), "mean"),
     Call(231, T("drive", ""), "wait_done", <<>>),
     Assign(233, "results", NpAppend("results", "avg_result")) >>

\* the sweep body with the trigger source started before the readout AWG
QubitSweepBody_TriggerFirst ==
  << Node(227, T("drive", ""), "modulation_freq", Name("f")),
     Call(228, T("uhfqa", ""), "arm", <<>>),
     Call(230, T("drive", ""), "run", <<>>),
     Call(229, T("readout", ""), "run", <<>>),
     Call(231, T("drive", ""), "wait_done", <<>>),
     ResultOf(232, "avg_result", T("channel", ""), "mean"),
     Assign(233, "results", NpAppend("results", "avg_result")) >>

\* body of the qubit spectroscopy sweep loop
QubitSweepBody ==
  << Node(227, T("drive", ""), "modulation_freq", Name("f")),
     Call(228, T("uhfqa", ""), "arm", <<>>),
     Call(229, T("readout", ""), "run", <<>>),
     Call(230, T("drive", ""), "run", <<>>),
     Call(231, T("drive", ""), "wait_done", <<>>),
     ResultOf(232, "avg_result", T("channel", ""), "mean"),
     Assign(233, "results", NpAppend("results", "avg_result")) >>

\* qubit spectroscopy sweep cell
Cell5 ==
  << Node(217, T("uhfqa", "nodetree.qa.result.source"), "result_source", Num(7)),
     Call(218, T("uhfqa", ""), "arm",
          << <<"length", Name("repetitions")>>, <<"averages", Num(1)>> >>),
     Assign(220, "frequencies", NpLinspace(20000, 50000, NumFrequencies)),
     Assign(221, "results", NpEmpty),
     Node(224, T("drive", ""), "iq_modulation", Num(1)),
     ForIn(226, "f", "frequencies", Len(QubitSweepBody)) >>
  \o QubitSweepBody

\* Rabi configuration cell
Cell6 ==
  << Assign(265, "drive", AttrOf("hdawg", "awgs[0]")),
     Assign(266, "readout", AttrOf("uhfqa", "awg")),
     Assign(267, "channel", AttrOf("uhfqa", "channels[0]")),
     Assign(269, "averages", Num(256)),
     Assign(270, "period", Num(10000)),
     Assign(273, "rabi_amplitudes", NpLinspace(0, 100, NumAmplitudes)),
     Node(276, T("hdawg", "awgs[0]"), "iq_modulation", Num(1)),
     Node(277, T("hdawg", "awgs[0]"), "modulation_freq", Num(100000)),
     Call(279, T("hdawg", "awgs[0]"), "set_sequence_params",
          << <<"sequence_type", Str("Rabi")>>,
             <<"pulse_width", Num(50)>>,
             <<"pulse_amplitudes", Name("rabi_amplitudes")>>,
             <<"period", Name("period")>>,
             <<"repetitions", Name("averages")>>,
             <<"trigger_mode", Str("Send Trigger")>> >>),
     Call(287, T("hdawg", "awgs[0]"), "compile", <<>>),
     Node(290, T("channel", ""), "channel_enable", Num(1)),
     Node(291, T("channel", ""), "readout_frequency", Num(123000)),
     Call(292, T("readout", ""), "set_sequence_params",
          << <<"sequence_type", Str("Readout")>>,
             <<"period", Name("period")>>,
             <<"repetitions", MulLen("averages", "rabi_amplitudes")>>,
             <<"trigger_mode", Str("External Trigger")>>,
             <<"pulse_lenth", Num(2000)>> >>),
     Call(299, T("readout", ""), "compile", <<>>) >>

\* Rabi run cell
Cell7 ==
  << Node(308, T("uhfqa", ""), "result_mode", Str("Cyclic")),
     Call(309, T("uhfqa", ""), "arm",
          << <<"length", LenOf("rabi_amplitudes")>>,
             <<"averages", Name("averages")>> >>),
     Call(310, T("readout", ""), "run", <<>>),
     Call(311, T("drive", ""), "run", <<>>),
     Call(312, T("drive", ""), "wait_done", <<>>),
     ResultOf(313, "result", T("channel", ""), "id") >>

\* the T1 drive configuration without the compile call
T1DriveConfig_NoCompile ==
  << Node(355, T("hdawg", "awgs[0]"), "iq_modulation", Num(1)),
     Node(356, T("hdawg", "awgs[0]"), "modulation_freq", Num(100000)),
     Call(358, T("hdawg", "awgs[0]"), "set_sequence_params",
          << <<"sequence_type", Str("T1")>>,
             <<"pulse_width", Num(50)>>,
             <<"delay_times", Name("delay_times")>>,
             <<"period", Name("period")>>,
             <<"repetitions", Name("averages")>>,
             <<"trigger_mode", Str("Send Trigger")>> >>) >>

\* T1 configuration cell: the drive sequence
T1DriveConfig ==
  << Node(355, T("hdawg", "awgs[0]"), "iq_modulation", Num(1)),
     Node(356, T("hdawg", "awgs[0]"), "modulation_freq", Num(100000)),
     Call(358, T("hdawg", "awgs[0]"), "set_sequence_params",
          << <<"sequence_type", Str("T1")>>,
             <<"pulse_width", Num(50)>>,
             <<"delay_times", Name("delay_times")>>,
             <<"period", Name("period")>>,
             <<"repetitions", Name("averages")>>,
             <<"trigger_mode", Str("Send Trigger")>> >>),
     Call(366, T("hdawg", "awgs[0]"), "compile", <<>>) >>

\* T1 configuration cell
Cell8 ==
  << Assign(343, "drive", AttrOf("hdawg", "awgs[0]")),
     Assign(344, "readout", AttrOf("uhfqa", "awg")),
     Assign(345, "channel", AttrOf("uhfqa", "channels[0]")),
     Assign(348, "period", Num(50000)),
     Assign(349, "averages", Num(256)),
     Assign(352, "delay_times", NpLinspace(500, 20000, NumDelays)) >>
  \o T1DriveConfig \o
  << Node(369, T("channel", ""), "channel_enable", Num(1)),
     Node(370, T("channel", ""), "readout_frequency", Num(123000)),
     Call(371, T("readout", ""), "set_sequence_params",
          << <<"sequence_type", Str("Readout")>>,
             <<"period", Name("period")>>,
             <<"pulse_lenth", Num(2000)>>,
             <<"repetitions", MulLen("averages", "delay_times")>>,
             <<"trigger_mode", Str("External Trigger")>> >>),
     Call(378, T("readout", ""), "compile", <<>>) >>

\* the T1 run cell armed with the sweep cells' single average
Cell9_ArmOneAverage ==
  << Call(387, T("uhfqa", ""), "arm",
          << <<"length", LenOf("delay_times")>>, <<"averages", Num(1)>> >>),
     Call(388, T("readout", ""), "run", <<>>),
     Call(389, T("drive", ""), "run", <<>>),
     Call(390, T("drive", ""), "wait_done", <<>>),
     ResultOf(391, "result", T("channel", ""), "id") >>

\* T1 run cell
Cell9 ==
  << Call(387, T("uhfqa", ""), "arm",
          << <<"length", LenOf("delay_times")>>,
             <<"averages", Name("averages")>> >>),
     Call(388, T("readout", ""), "run", <<>>),
     Call(389, T("drive", ""), "run", <<>>),
     Call(390, T("drive", ""), "wait_done", <<>>),
     ResultOf(391, "result", T("channel", ""), "id") >>

\* the .seqC file named by the custom sequence cell
CustomPath == "myProgram.seqC"

\* custom sequence cell
Cell10 ==
  << Call(440, T("awg", ""), "set_sequence_params",
          << <<"path", Str(CustomPath)>>,
             <<"custom_params", E("list", "", "", <<1000, 99, 1>>)>> >>) >>

Program == <<Cell1, Cell2, Cell3, Cell4, Cell5, Cell6, Cell7, Cell8, Cell9, Cell10>>

NumCells == Len(Program)

\* ------------------------------------------------------------- state ----
VARIABLES
  cell,         \* the code cell being executed
  pc,           \* index of the next statement in that cell
  it,           \* position of the cell's for-loop iterator
  phase,        \* "exec", "aborted" (an exception ended the cell), "halted"
  env,          \* kernel namespace: name -> value
  server,       \* data server of the MultiDeviceConnection: "none" / "up"
  connVia,      \* device -> connection object it was connected through
  seqParams,    \* AWG core -> sequence parameters (name -> value)
  dirty,        \* AWG core -> parameters changed since the last compile call
  compiledType, \* AWG core -> sequence type of the last compile call
  status,       \* AWG core -> outcome reported by the last compile call
  elf,          \* AWG core -> sequence type of the program on the device
  queue,        \* AWG core -> queued waveforms
  uploaded,     \* AWG core -> number of waveforms of the last upload
  nodes,        \* <<object, setting>> -> value
  armLength,    \* result length of the UHFQA acquisition
  armAverages,  \* hardware averages of the UHFQA acquisition
  armed,        \* the acquisition is armed
  running,      \* AWG core -> its sequencer is running
  acq,          \* the data of the last completed acquisition
  meas,         \* bookkeeping of the measurement in progress
  files,        \* path -> tokens of the .seqC file stored there
  program       \* the sequence program written for a Custom sequence

vars == <<cell, pc, it, phase, env, server, connVia, seqParams, dirty,
          compiledType, status, elf, queue, uploaded, nodes, armLength,
          armAverages, armed, running, acq, meas, files, program>>

Cores == {"HD0", "QA"}

Devices == {"HDAWG", "UHFQA"}

\* compile() and compile_and_upload_waveforms() report their outcome as text
CompileOutcomes == {"success", "failure"}

DeviceOf(obj) ==
  CASE obj \in {"HDAWG", "HD0"} -> "HDAWG"
    [] obj \in {"UHFQA", "QA", "CH0", "OSC", "QASRC"} -> "UHFQA"
    [] OTHER -> "none"

Bind(f, k, x) == [y \in DOMAIN f \cup {k} |-> IF y = k THEN x ELSE f[y]]

Get(f, k, d) == IF k \in DOMAIN f THEN f[k] ELSE d

NoMeas == [arms |-> 0, qaRun |-> FALSE, hdRun |-> FALSE, waited |-> FALSE]

NoData == [osc |-> 0, mod |-> 0, len |-> 0, avg |-> 0]

Init ==
  /\ cell = 1 /\ pc = 1 /\ it = 0 /\ phase = "exec"
  /\ env = [x \in {} |-> NumV(0)]
  /\ server = "none"
  /\ connVia = [d \in Devices |-> ""]
  /\ seqParams = [c \in Cores |-> [x \in {} |-> NumV(0)]]
  /\ dirty = [c \in Cores |-> FALSE]
  /\ compiledType = [c \in Cores |-> "none"]
  /\ status = [c \in Cores |-> "none"]
  /\ elf = [c \in Cores |-> "none"]
  /\ queue = [c \in Cores |-> <<>>]
  /\ uploaded = [c \in Cores |-> 0]
  /\ nodes = [x \in {} |-> NumV(0)]
  /\ armLength = 0 /\ armAverages = 0 /\ armed = FALSE
  /\ running = [c \in Cores |-> FALSE]
  /\ acq = NoData
  /\ meas = NoMeas
  /\ files = [f \in {CustomPath} |-> <<>>]
  /\ program = <<>>

\* ----------------------------------------------------- control flow ----
InCell == phase = "exec" /\ pc <= Len(Program[cell])

Cur == Program[cell][pc]

\* the names a statement reads
NamesOfStmt(s) ==
  (IF s.tgt.base = "" THEN {} ELSE {s.tgt.base})
    \cup NamesOf(s.e)
    \cup UNION {NamesOf(s.args[j][2]) : j \in DOMAIN s.args}
    \cup (IF s.op \in {"new_mdc", "connect_device"} THEN {"tk"} ELSE {})
    \cup (IF s.op = "result" /\ s.e.v = "mean" THEN {"np"} ELSE {})

Bound(s) == NamesOfStmt(s) \subseteq DOMAIN env

\* the toolkit object a statement is called on
Target(s) == Attr(env[s.tgt.base].v, s.tgt.path)

\* a statement is ready when it is next and all names it reads are bound
Ready(op) == InCell /\ Cur.op = op /\ Bound(Cur)

\* the for statement whose body holds statement p of cell c (0: none)
LoopHead(c, p) ==
  IF \E h \in 1..Len(Program[c]) :
       Program[c][h].op = "for" /\ h < p /\ p <= h + Program[c][h].n
  THEN CHOOSE h \in 1..Len(Program[c]) :
       Program[c][h].op = "for" /\ h < p /\ p <= h + Program[c][h].n
  ELSE 0

\* the statement executed after statement p of cell c
NextPc(c, p) ==
  IF LoopHead(c, p) # 0 /\ p = LoopHead(c, p) + Program[c][LoopHead(c, p)].n
  THEN LoopHead(c, p)
  ELSE p + 1

Step == pc' = NextPc(cell, pc) /\ UNCHANGED <<cell, it, phase, files, program>>

ArgKeys(args) == {args[j][1] : j \in DOMAIN args}

ArgExpr(args, k) == args[CHOOSE j \in DOMAIN args : args[j][1] = k][2]

dev_state == <<server, connVia, seqParams, dirty, compiledType, status, elf,
               queue, uploaded, nodes, armLength, armAverages, armed,
               running, acq, meas, files, program>>

awg_state == <<seqParams, dirty, compiledType, status, elf, queue, uploaded>>

qa_state == <<armLength, armAverages, armed, running, acq, meas>>

\* ----------------------------------------------------------- actions ----
\* import zhinst.toolkit as tk / import numpy as np
DoImport ==
  /\ Ready("import")
  /\ env' = Bind(env, Cur.name, ObjV(Cur.name))
  /\ Step /\ UNCHANGED dev_state

\* mdc = tk.MultiDeviceConnection(host=...)
NewMdc ==
  /\ Ready("new_mdc")
  /\ env' = Bind(env, Cur.name, ObjV("MDC"))
  /\ Step /\ UNCHANGED dev_state

\* mdc.setup()
Setup ==
  /\ Ready("setup")
  /\ server' = "up"
  /\ Step /\ UNCHANGED <<env, connVia, awg_state, nodes, qa_state>>

\* mdc.connect_device(tk.HDAWG(...)) / mdc.connect_device(tk.UHFQA(...))
ConnectDevice ==
  /\ Ready("connect_device")
  /\ connVia' = [connVia EXCEPT ![Cur.name] = Target(Cur)]
  /\ Step /\ UNCHANGED <<env, server, awg_state, nodes, qa_state>>

\* name = expression
AssignStmt ==
  /\ Ready("assign")
  /\ env' = Bind(env, Cur.name, Eval(Cur.e, env))
  /\ Step /\ UNCHANGED dev_state

\* core.set_sequence_params(key=value, ...)
SetSequenceParams ==
  /\ Ready("set_sequence_params")
  /\ LET c == Target(Cur)
         new == [k \in DOMAIN seqParams[c] \cup ArgKeys(Cur.args) |->
                   IF k \in ArgKeys(Cur.args)
                   THEN Eval(ArgExpr(Cur.args, k), env)
                   ELSE seqParams[c][k]]
     IN /\ seqParams' = [seqParams EXCEPT ![c] = new]
        /\ dirty' = [dirty EXCEPT ![c] = TRUE]
  /\ Step
  /\ UNCHANGED <<env, server, connVia, compiledType, status, elf, queue,
                 uploaded, nodes, qa_state>>

\* compile() that raises on failure and so ends the cell
Compile_RaiseOnFailure ==
  /\ Ready("compile")
  /\ \E o \in CompileOutcomes :
       LET c == Target(Cur)
           ty == Get(seqParams[c], "sequence_type", StrV("none")).v
       IN /\ status' = [status EXCEPT ![c] = o]
          /\ compiledType' = [compiledType EXCEPT ![c] = ty]
          /\ dirty' = [dirty EXCEPT ![c] = FALSE]
          /\ elf' = IF o = "success" THEN [elf EXCEPT ![c] = ty] ELSE elf
          /\ IF o = "success"
             THEN Step
             ELSE phase' = "aborted" /\ UNCHANGED <<cell, pc, it, files, program>>
  /\ UNCHANGED <<env, server, connVia, seqParams, queue, uploaded, nodes,
                 qa_state>>

\* core.compile(): the next statement follows whatever the outcome
Compile ==
  /\ Ready("compile")
  /\ \E o \in CompileOutcomes :
       LET c == Target(Cur)
           ty == Get(seqParams[c], "sequence_type", StrV("none")).v
       IN /\ status' = [status EXCEPT ![c] = o]
          /\ compiledType' = [compiledType EXCEPT ![c] = ty]
          /\ dirty' = [dirty EXCEPT ![c] = FALSE]
          /\ elf' = IF o = "success" THEN [elf EXCEPT ![c] = ty] ELSE elf
  /\ Step
  /\ UNCHANGED <<env, server, connVia, seqParams, queue, uploaded, nodes,
                 qa_state>>

\* core.compile_and_upload_waveforms()
CompileAndUpload ==
  /\ Ready("compile_and_upload_waveforms")
  /\ \E o \in CompileOutcomes :
       LET c == Target(Cur)
           ty == Get(seqParams[c], "sequence_type", StrV("none")).v
       IN /\ status' = [status EXCEPT ![c] = o]
          /\ compiledType' = [compiledType EXCEPT ![c] = ty]
          /\ dirty' = [dirty EXCEPT ![c] = FALSE]
          /\ elf' = IF o = "success" THEN [elf EXCEPT ![c] = ty] ELSE elf
          /\ uploaded' = IF o = "success"
                         THEN [uploaded EXCEPT ![c] = Len(queue[c])]
                         ELSE uploaded
  /\ Step
  /\ UNCHANGED <<env, server, connVia, seqParams, queue, nodes, qa_state>>

\* core.reset_queue()
ResetQueue ==
  /\ Ready("reset_queue")
  /\ queue' = [queue EXCEPT ![Target(Cur)] = <<>>]
  /\ Step
  /\ UNCHANGED <<env, server, connVia, seqParams, dirty, compiledType,
                 status, elf, uploaded, nodes, qa_state>>

\* core.queue_waveform(wave1, wave2)
QueueWaveform ==
  /\ Ready("queue_waveform")
  /\ queue' = [queue EXCEPT ![Target(Cur)] =
                 Append(@, <<Eval(ArgExpr(Cur.args, "wave1"), env),
                             Eval(ArgExpr(Cur.args, "wave2"), env)>>)]
  /\ Step
  /\ UNCHANGED <<env, server, connVia, seqParams, dirty, compiledType,
                 status, elf, uploaded, nodes, qa_state>>

\* a device setting: result_source, result_mode, modulation_freq,
\* enable_iq_modulation, channel.enable, readout_frequency, osc.freq
SetNode ==
  /\ Ready("node")
  /\ nodes' = Bind(nodes, <<Target(Cur), Cur.name>>, Eval(Cur.e, env))
  /\ Step /\ UNCHANGED <<env, server, connVia, awg_state, qa_state>>

\* uhfqa.arm(length=..., averages=...): arguments left out keep their value
Arm ==
  /\ Ready("arm")
  /\ armLength' = IF "length" \in ArgKeys(Cur.args)
                   THEN Eval(ArgExpr(Cur.args, "length"), env).v
                   ELSE armLength
  /\ armAverages' = IF "averages" \in ArgKeys(Cur.args)
                     THEN Eval(ArgExpr(Cur.args, "averages"), env).v
                     ELSE armAverages
  /\ armed' = TRUE
  /\ meas' = [arms |-> IF meas.arms < 2 THEN meas.arms + 1 ELSE 2,
              qaRun |-> FALSE, hdRun |-> FALSE, waited |-> FALSE]
  /\ Step
  /\ UNCHANGED <<env, server, connVia, awg_state, nodes, running, acq>>

\* for f in frequencies: the next sweep point is bound and the body entered
ForEnter ==
  /\ Ready("for")
  /\ it < Len(env[Cur.e.a].v)
  /\ env' = Bind(env, Cur.name, NumV(env[Cur.e.a].v[it + 1]))
  /\ it' = it + 1
  /\ pc' = pc + 1
  /\ meas' = NoMeas
  /\ UNCHANGED <<cell, phase, server, connVia, awg_state, nodes, armLength,
                 armAverages, armed, running, acq, files, program>>

\* for f in frequencies: the iterator is exhausted
ForExit ==
  /\ Ready("for")
  /\ it = Len(env[Cur.e.a].v)
  /\ pc' = pc + Cur.n + 1
  /\ UNCHANGED <<cell, it, phase, env, dev_state>>

\* core.run()
Run ==
  /\ Ready("run")
  /\ running' = [running EXCEPT ![Target(Cur)] = TRUE]
  /\ meas' = IF Target(Cur) = "QA"
             THEN [meas EXCEPT !.qaRun = TRUE]
             ELSE [meas EXCEPT !.hdRun = TRUE, !.waited = FALSE]
  /\ Step
  /\ UNCHANGED <<env, server, connVia, awg_state, nodes, armLength,
                 armAverages, armed, acq>>

\* the HDAWG sequencer finishes; the triggers it sent have completed the
\* acquisition if the readout AWG was started and the acquisition armed
HwDone ==
  /\ running["HD0"]
  /\ IF running["QA"] /\ armed
     THEN /\ running' = [c \in Cores |-> FALSE]
          /\ armed' = FALSE
          /\ acq' = [osc |-> Get(nodes, <<"OSC", "osc_freq">>, NumV(0)).v,
                     mod |-> Get(nodes, <<"HD0", "modulation_freq">>, NumV(0)).v,
                     len |-> armLength, avg |-> armAverages]
     ELSE /\ running' = [running EXCEPT !["HD0"] = FALSE]
          /\ UNCHANGED <<armed, acq>>
  /\ UNCHANGED <<cell, pc, it, phase, env, server, connVia, awg_state, nodes,
                 armLength, armAverages, meas, files, program>>

\* core.wait_done(): blocks until the sequencer has finished
WaitDone ==
  /\ Ready("wait_done")
  /\ ~running[Target(Cur)]
  /\ meas' = [meas EXCEPT !.waited = TRUE]
  /\ Step
  /\ UNCHANGED <<env, server, connVia, awg_state, nodes, armLength,
                 armAverages, armed, running, acq>>

\* name = channel.result() / name = np.mean(channel.result())
Result ==
  /\ Ready("result")
  /\ env' = Bind(env, Cur.name, [t |-> "data", v |-> acq])
  /\ Step /\ UNCHANGED dev_state

\* a statement reads an unbound name: NameError ends the cell
NameError ==
  /\ InCell /\ ~Bound(Cur)
  /\ phase' = "aborted"
  /\ UNCHANGED <<cell, pc, it, env, dev_state>>

\* the cell has run to its end; the next cell is executed
CellEnd ==
  /\ phase = "exec" /\ pc = Len(Program[cell]) + 1 /\ cell < NumCells
  /\ cell' = cell + 1 /\ pc' = 1 /\ it' = 0
  /\ UNCHANGED <<phase, env, dev_state>>

\* after an exception the user executes the next cell
RunNextCell ==
  /\ phase = "aborted" /\ cell < NumCells
  /\ cell' = cell + 1 /\ pc' = 1 /\ it' = 0 /\ phase' = "exec"
  /\ UNCHANGED <<env, dev_state>>

\* after an exception execution stops (Run All)
StopOnError ==
  /\ phase = "aborted"
  /\ phase' = "halted"
  /\ UNCHANGED <<cell, pc, it, env, dev_state>>

Next ==
  \/ DoImport \/ NewMdc \/ Setup \/ ConnectDevice \/ AssignStmt
  \/ SetSequenceParams \/ Compile \/ CompileAndUpload
  \/ ResetQueue \/ QueueWaveform \/ SetNode \/ Arm
  \/ ForEnter \/ ForExit \/ Run \/ HwDone \/ WaitDone \/ Result
  \/ NameError \/ CellEnd \/ RunNextCell \/ StopOnError

Spec == Init /\ [][Next]_vars

\* ------------------------------------------------- custom sequence ----
\* bounds of the custom-sequence specification
MaxProgLen == 2

MaxParams == 3

MaxIndex == 3

Placeholder(n) == [k |-> "ph", n |-> n]

Literal(x) == [k |-> "lit", n |-> x]

Tokens == {Literal(0)} \cup {Placeholder(n) : n \in 0..MaxIndex}

SeqsUpTo(A, n) == UNION {[1..m -> A] : m \in 0..n}

ParamValues == {1000, 99, 1}

\* every occurrence of the placeholder $param<n>$ replaced by the text of x
ReplaceAll(prog, n, x) ==
  [j \in DOMAIN prog |-> IF prog[j] = Placeholder(n) THEN Literal(x) ELSE prog[j]]

RECURSIVE ReplaceParams_OneBased(_, _, _)
\* the substitution with placeholders numbered from 1
ReplaceParams_OneBased(prog, L, i) ==
  IF i > Len(L) THEN prog
  ELSE ReplaceParams_OneBased(ReplaceAll(prog, i, L[i]), L, i + 1)

RECURSIVE ReplaceParams(_, _, _)
\* placeholders are substituted by custom_params, indices starting from 0
ReplaceParams(prog, L, i) ==
  IF i > Len(L) THEN prog
  ELSE ReplaceParams(ReplaceAll(prog, i - 1, L[i]), L, i + 1)

\* awg.set_sequence_params(path=..., custom_params=L)
ConfigureCustom ==
  /\ \E L \in SeqsUpTo(ParamValues, MaxParams) :
       LET new == [k \in DOMAIN seqParams["HD0"] \cup {"path", "custom_params"} |->
                     CASE k = "path" -> StrV(CustomPath)
                       [] k = "custom_params" -> ArrV(L)
                       [] OTHER -> seqParams["HD0"][k]]
       IN seqParams' = [seqParams EXCEPT !["HD0"] = new]
  /\ dirty' = [dirty EXCEPT !["HD0"] = TRUE]
  /\ UNCHANGED <<cell, pc, it, phase, env, server, connVia, compiledType,
                 status, elf, queue, uploaded, nodes, qa_state, files, program>>

\* the Custom sequence program is written from the file and custom_params
WriteCustomSequence ==
  /\ dirty["HD0"] /\ "path" \in DOMAIN seqParams["HD0"]
  /\ program' = ReplaceParams(files[seqParams["HD0"]["path"].v],
                              seqParams["HD0"]["custom_params"].v, 1)
  /\ dirty' = [dirty EXCEPT !["HD0"] = FALSE]
  /\ UNCHANGED <<cell, pc, it, phase, env, server, connVia, seqParams,
                 compiledType, status, elf, queue, uploaded, nodes, qa_state,
                 files>>

InitCustom ==
  /\ cell = NumCells /\ pc = 1 /\ it = 0 /\ phase = "exec"
  /\ env = [x \in {"awg"} |-> ObjV("HD0")]
  /\ server = "up"
  /\ connVia = [d \in Devices |-> "MDC"]
  /\ seqParams = [c \in Cores |-> [x \in {} |-> NumV(0)]]
  /\ dirty = [c \in Cores |-> FALSE]
  /\ compiledType = [c \in Cores |-> "none"]
  /\ status = [c \in Cores |-> "none"]
  /\ elf = [c \in Cores |-> "none"]
  /\ queue = [c \in Cores |-> <<>>]
  /\ uploaded = [c \in Cores |-> 0]
  /\ nodes = [x \in {} |-> NumV(0)]
  /\ armLength = 0 /\ armAverages = 0 /\ armed = FALSE
  /\ running = [c \in Cores |-> FALSE]
  /\ acq = NoData
  /\ meas = NoMeas
  /\ files \in [{CustomPath} -> SeqsUpTo(Tokens, MaxProgLen)]
  /\ program = <<>>

NextCustom == ConfigureCustom \/ WriteCustomSequence

SpecCustom == InitCustom /\ [][NextCustom]_vars

\* ---------------------------------------- drive configuration, rerun ----
\* bound on the waveforms the drive core's queue holds beforehand
MaxQueue == 3

\* sample counts of the waveforms queued beforehand
WaveLens == {12000, 8}

QueuedWaves == {<<WaveV(n), WaveV(n)>> : n \in WaveLens}

\* the qubit spectroscopy configuration cell is executed in a kernel where
\* the connection and resonator configuration cells have run and the queue
\* of hdawg.awgs[0] holds any waveforms queued earlier
InitQueue ==
  /\ cell = 4 /\ pc = 1 /\ it = 0 /\ phase = "exec"
  /\ env = [x \in {"tk", "np", "mdc", "hdawg", "uhfqa", "trigger", "readout",
                    "period", "repetitions"} |->
             CASE x = "tk" -> ObjV("tk")
               [] x = "np" -> ObjV("np")
               [] x = "mdc" -> ObjV("MDC")
               [] x = "hdawg" -> ObjV("HDAWG")
               [] x = "uhfqa" -> ObjV("UHFQA")
               [] x = "trigger" -> ObjV("HD0")
               [] x = "readout" -> ObjV("QA")
               [] x = "period" -> NumV(10000)
               [] x = "repetitions" -> NumV(1000)]
  /\ server = "up"
  /\ connVia = [d \in Devices |-> "MDC"]
  /\ seqParams =
       [c \in Cores |->
          IF c = "HD0"
          THEN [sequence_type |-> StrV("Trigger"), period |-> NumV(10000),
                repetitions |-> NumV(1000)]
          ELSE [sequence_type |-> StrV("Pulsed Spectroscopy"),
                period |-> NumV(10000), repetitions |-> NumV(1000),
                trigger_mode |-> StrV("External Trigger")]]
  /\ dirty = [c \in Cores |-> FALSE]
  /\ compiledType = [c \in Cores |->
                       IF c = "HD0" THEN "Trigger" ELSE "Pulsed Spectroscopy"]
  /\ status \in [Cores -> CompileOutcomes]
  /\ elf = [c \in Cores |->
              IF status[c] = "success" THEN compiledType[c] ELSE "none"]
  /\ queue \in [Cores -> SeqsUpTo(QueuedWaves, MaxQueue)]
  /\ queue["QA"] = <<>>
  /\ uploaded = [c \in Cores |-> 0]
  /\ nodes = [x \in {} |-> NumV(0)]
  /\ armLength = 0 /\ armAverages = 0 /\ armed = FALSE
  /\ running = [c \in Cores |-> FALSE]
  /\ acq = NoData
  /\ meas = NoMeas
  /\ files = [f \in {CustomPath} |-> <<>>]
  /\ program = <<>>

NextQueue ==
  \/ AssignStmt \/ SetSequenceParams \/ ResetQueue \/ QueueWaveform
  \/ CompileAndUpload \/ SetNode \/ Compile

SpecQueue == InitQueue /\ [][NextQueue]_vars

\* ------------------------------------------------------------ claims ----
SweepCells == {3, 5}

CompileOps == {"compile", "compile_and_upload_waveforms"}

\* the statement under the program counter is op and about to execute
At(op) == InCell /\ Cur.op = op /\ Bound(Cur)

\* C1: whenever result() is about to be read, the triggering HDAWG core has
\* been run in this measurement, its wait_done() has returned after that
\* run(), and the core is no longer running.
C1_ResultAfterWaitDone ==
  At("result") => meas.hdRun /\ meas.waited /\ ~running["HD0"]

\* the last iteration of the qubit sweep is about to read its result
C1_Witness ==
  At("result") /\ cell = 5 /\ it = NumFrequencies /\ meas.waited

\* C2: a step of the script at a compile() or compile_and_upload_waveforms()
\* statement moves control to the statement that statically follows it and
\* nowhere else, whatever outcome the call reported.
C2_NoBranchOnCompile ==
  [][(InCell /\ Cur.op \in CompileOps /\ Bound(Cur)
        /\ <<cell, pc, phase>>' # <<cell, pc, phase>>)
       => (phase' = "exec" /\ cell' = cell /\ pc' = NextPc(cell, pc))]_vars

\* a compilation failed and the sweep that follows still reads results
C2_Witness ==
  /\ At("result") /\ cell = 5
  /\ status["HD0"] = "failure" /\ status["QA"] = "success"

\* result length and averages announced by the sweep cells' leading comment
CommentedLength == 1000

CommentedAverages == 1

\* C3: when a frequency-sweep loop starts its first iteration the UHFQA is
\* armed with result length 1000 and 1 hardware average.
C3_ArmedAsCommented ==
  (At("for") /\ cell \in SweepCells /\ it = 0)
    => armed /\ armLength = CommentedLength /\ armAverages = CommentedAverages

\* C4: once the Custom sequence program is written, every placeholder
\* $paramN$ of the file with 0 <= N < len(custom_params) holds the text of
\* custom_params[N], and every other token of the file is unchanged.
C4_PlaceholderSubstitution ==
  ("path" \in DOMAIN seqParams["HD0"] /\ ~dirty["HD0"]) =>
    LET file == files[CustomPath]
        L == seqParams["HD0"]["custom_params"].v
    IN /\ Len(program) = Len(file)
       /\ \A j \in DOMAIN file :
            program[j] = IF file[j].k = "ph" /\ file[j].n < Len(L)
                         THEN Literal(L[file[j].n + 1])
                         ELSE file[j]

\* custom_params=[1000, 99, 1] substituted into '$param2$ $param0$'
C4_Witness ==
  /\ "path" \in DOMAIN seqParams["HD0"] /\ ~dirty["HD0"]
  /\ seqParams["HD0"]["custom_params"].v = <<1000, 99, 1>>
  /\ files[CustomPath] = <<Placeholder(2), Placeholder(0)>>
  /\ program = <<Literal(1), Literal(1000)>>

SingleShotCells == {7, 9}

\* the number of sweep points of the single-shot experiments
SweepPoints(c) == IF c = 7 THEN NumAmplitudes ELSE NumDelays

\* C5: when an AWG core is started in the Rabi or T1 run cell, the readout
\* AWG's repetitions equal averages x sweep points, the acquisition is armed
\* with length = sweep points and averages = averages, so that readout
\* pulses = armed length x armed averages, and the drive sequence's
\* repetitions equal the armed averages.
C5_PulseCount ==
  (At("run") /\ cell \in SingleShotCells) =>
    LET ro == seqParams["QA"]["repetitions"].v
        dr == seqParams["HD0"]["repetitions"].v
        avg == env["averages"].v
    IN /\ ro = avg * SweepPoints(cell)
       /\ armLength = SweepPoints(cell)
       /\ armAverages = avg
       /\ ro = armLength * armAverages
       /\ dr = armAverages

\* the T1 drive is about to start with 256 x 40 readout pulses configured
C5_Witness ==
  /\ At("run") /\ cell = 9 /\ Target(Cur) = "HD0"
  /\ seqParams["QA"]["repetitions"].v = 10240 /\ armLength = 40

\* C6: after the T1 configuration call the sequence parameter time_delays
\* of hdawg.awgs[0] holds the array of delays.
C6_TimeDelaysSet ==
  (Get(seqParams["HD0"], "sequence_type", StrV("none")).v = "T1") =>
    /\ "time_delays" \in DOMAIN seqParams["HD0"]
    /\ seqParams["HD0"]["time_delays"] = env["delay_times"]

\* the statement under the program counter is called on a device object
OnDevice ==
  InCell /\ Bound(Cur) /\ Cur.tgt.base # "" /\ DeviceOf(Target(Cur)) # "none"

\* C7: connect_device is called on the one MultiDeviceConnection after its
\* setup(), both devices are connected through it, and a statement on hdawg
\* or uhfqa executes only after that device's connect_device.
C7_ConnectBeforeUse ==
  /\ At("connect_device") => server = "up" /\ Target(Cur) = "MDC"
  /\ \A d \in Devices : connVia[d] \in {"", "MDC"}
  /\ OnDevice => connVia[DeviceOf(Target(Cur))] = "MDC" /\ server = "up"
  /\ cell > 1 => \A d \in Devices : connVia[d] = "MDC"

\* the Rabi drive is about to start on a connected HDAWG
C7_Witness ==
  /\ At("run") /\ cell = 7 /\ Target(Cur) = "HD0"
  /\ connVia = [d \in Devices |-> "MDC"]

\* a sweep cell has ended, normally or by an exception
CellOver(c) == cell = c /\ (phase # "exec" \/ pc > Len(Program[c]))

\* C8: each frequency-sweep loop ends after one iteration per sweep point
\* (101); inside the loop results holds one value per completed iteration,
\* in sweep order; after the loop len(results) = len(frequencies).
C8_SweepCompletes ==
  /\ \A c \in SweepCells : CellOver(c) =>
        /\ it = NumFrequencies
        /\ {"results", "frequencies"} \subseteq DOMAIN env
        /\ Len(env["results"].v) = Len(env["frequencies"].v)
  /\ (InCell /\ cell \in SweepCells /\ (Cur.op = "for" \/ LoopHead(cell, pc) # 0)) =>
        LET done == IF Cur.op = "for" THEN it ELSE it - 1
        IN /\ Len(env["results"].v) = done
           /\ \A k \in 1..done :
                env["results"].v[k].len = armLength /\
                (IF cell = 3 THEN env["results"].v[k].osc
                 ELSE env["results"].v[k].mod) = env["frequencies"].v[k]

\* C9: the HDAWG core is started only when the readout AWG has been started
\* and the acquisition armed; the readout AWG is started only when armed; in
\* a sweep iteration arm() has been called exactly once by then and by the
\* end of the iteration; the HDAWG core never runs while the readout AWG is
\* not running or the acquisition not armed.
C9_ReceiverReady ==
  /\ (At("run") /\ Target(Cur) = "HD0") => meas.qaRun /\ running["QA"] /\ armed
  /\ (At("run") /\ Target(Cur) = "QA") =>
        armed /\ (LoopHead(cell, pc) # 0 => meas.arms = 1)
  /\ (InCell /\ LoopHead(cell, pc) # 0 /\ NextPc(cell, pc) = LoopHead(cell, pc))
        => meas.arms = 1
  /\ running["HD0"] => running["QA"] /\ armed

\* the drive is about to start in the second iteration of the qubit sweep
C9_Witness ==
  /\ At("run") /\ Target(Cur) = "HD0" /\ cell = 5 /\ it = 2
  /\ running["QA"] /\ armed /\ meas.arms = 1

\* the sequence type each experiment runs on each AWG core
ExperimentType(c, core) ==
  CASE c = 3 -> IF core = "HD0" THEN "Trigger" ELSE "Pulsed Spectroscopy"
    [] c = 5 -> IF core = "HD0" THEN "Simple" ELSE "Readout"
    [] c = 7 -> IF core = "HD0" THEN "Rabi" ELSE "Readout"
    [] c = 9 -> IF core = "HD0" THEN "T1" ELSE "Readout"
    [] OTHER -> "none"

Called(op) ==
  phase = "exec" /\ \E q \in 1..(pc - 1) : Program[cell][q].op = op

====
